---- MODULE Spec2Model ----
(***************************************************************************)
(* qbit-orphanage: the file-relationship correlation engine.               *)
(*   core/hardlink.py  HardlinkDetector (inode index, groups, lookup)      *)
(*   core/scanner.py   classify_files, MediaScanner.scan_all and helpers   *)
(*   api/qbit_client.py should_skip_torrent_file, get_torrents             *)
(*   web/app.py        api_delete_file, ConnectionManager                  *)
(* Paths are pathlib values, written here by their string form; the        *)
(* characters of each path are kept in PathChars so that the regular       *)
(* expressions of the source are evaluated, not assumed.                   *)
(***************************************************************************)
EXTENDS Integers, Sequences, FiniteSets, TLC

VARIABLES
    fs,             \* the filesystem: path -> (st_dev, st_ino) or NoFile
    dirs,           \* the root directories that exist
    inode_map,      \* HardlinkDetector.inode_map, keys in insertion order
    file_cache,     \* HardlinkDetector.file_cache
    statLog,        \* history: the (path, st_dev, st_ino) the detector stat'ed
    ret,            \* the last call: its name, argument and result
    nCalls,         \* scan_directory or scan_all calls made so far
    files,          \* classify_files: the list handed to it
    classified,     \* classify_files: the dict it returned
    qbit,           \* what qBittorrent reports: torrents with files and trackers
    radarr,         \* what Radarr reports: movies
    sonarr,         \* what Sonarr reports: series with their episode files
    results,        \* what the last scan_all call returned: None or Some(ScanResults)
    torrents,       \* _find_cross_seed_groups: the list handed to it
    cross_seed_groups,  \* _find_cross_seed_groups: the list it returned
    rel_in,         \* _build_file_relationships: the arguments handed to it
    relationships,  \* _build_file_relationships: the list it returned
    disk,           \* api_delete_file: the files that exist, by their location
    resp,           \* api_delete_file: the last request and its response
    active_connections, \* ConnectionManager.active_connections
    bcast,          \* the broadcast coroutine: where it is and what it awaits
    delivered,      \* how often the broadcast message reached each WebSocket
    stayed          \* the WebSockets connected ever since the broadcast began

fsVars == <<fs, dirs>>
detVars == <<inode_map, file_cache, statLog, ret, nCalls>>
clsVars == <<files, classified>>
svcVars == <<qbit, radarr, sonarr>>
scanVars == <<svcVars, results>>
xseedVars == <<torrents, cross_seed_groups>>
relVars == <<rel_in, relationships>>
delVars == <<disk, resp>>
wsVars == <<active_connections, bcast, delivered, stayed>>
webVars == <<delVars, wsVars>>
vars == <<fsVars, detVars, clsVars, scanVars, xseedVars, relVars, webVars>>

\* an optional value: None before the call returned, Some(x) after
None == {}
Some(x) == {x}

(***************************************************************************)
(* Bounds of the model.                                                    *)
(***************************************************************************)
MaxFiles == 2           \* longest list handed to classify_files
MaxScans == 2           \* scans made with one detector

(***************************************************************************)
(* Generic helpers.                                                        *)
(***************************************************************************)
SeqsUpTo(S, n) == UNION {[1..k -> S] : k \in 0..n}

Range(s) == {s[i] : i \in 1..Len(s)}

Min2(a, b) == IF a < b THEN a ELSE b

\* the list s filtered by membership of its entries in the set keep
RECURSIVE SelectIn(_, _)
SelectIn(s, keep) ==
    IF s = <<>> THEN <<>>
    ELSE (IF Head(s) \in keep THEN <<Head(s)>> ELSE <<>>) \o SelectIn(Tail(s), keep)

\* number of positions of s holding x
Count(s, x) == Cardinality({i \in 1..Len(s) : s[i] = x})

(***************************************************************************)
(* Path strings.                                                           *)
(***************************************************************************)
PathChars ==
    "/tm/a.mkv" :> <<"/","t","m","/","a",".","m","k","v">> @@
    "/tm/Sample.mkv" :> <<"/","t","m","/","S","a","m","p","l","e",".","m","k","v">> @@
    "/tm/sample.srt" :> <<"/","t","m","/","s","a","m","p","l","e",".","s","r","t">> @@
    "/tm/a.SRT" :> <<"/","t","m","/","a",".","S","R","T">> @@
    "/tm/extras/a.mkv" :> <<"/","t","m","/","e","x","t","r","a","s","/","a",".","m","k","v">> @@
    "/tm/proof.mkv" :> <<"/","t","m","/","p","r","o","o","f",".","m","k","v">> @@
    "/tm/proofs.mkv" :> <<"/","t","m","/","p","r","o","o","f","s",".","m","k","v">> @@
    "/tt/b.mkv" :> <<"/","t","t","/","b",".","m","k","v">> @@
    "/lm/a.mkv" :> <<"/","l","m","/","a",".","m","k","v">> @@
    "/lt/e.mkv" :> <<"/","l","t","/","e",".","m","k","v">> @@
    "/lm/Behind The-Scenes/a.mkv" :> <<"/","l","m","/","B","e","h","i","n","d"," ","T","h","e","-","S","c","e","n","e","s","/","a",".","m","k","v">>

AllPaths == DOMAIN PathChars

\* str(path)
PathStr(p) == PathChars[p]

(***************************************************************************)
(* Python's re.search for the patterns of the source.  A pattern is a      *)
(* sequence of items: a character set with a repetition range, the end     *)
(* anchor $, or the word boundary \b.  All patterns carry (?i): the        *)
(* subject's characters are lower-cased and the sets hold lower case.      *)
(***************************************************************************)
UpperCase == <<"A","B","C","D","E","F","G","H","I","J","K","L","M",
               "N","O","P","Q","R","S","T","U","V","W","X","Y","Z">>
LowerCase == <<"a","b","c","d","e","f","g","h","i","j","k","l","m",
               "n","o","p","q","r","s","t","u","v","w","x","y","z">>
Digits == {"0","1","2","3","4","5","6","7","8","9"}

Lower(c) ==
    IF \E i \in 1..26 : UpperCase[i] = c
    THEN LowerCase[CHOOSE i \in 1..26 : UpperCase[i] = c]
    ELSE c

\* \w
IsWordChar(c) == Lower(c) \in Range(LowerCase) \cup Digits \cup {"_"}

\* \b at the gap before position i of s
IsBoundary(s, i) ==
    LET before == i > 1 /\ i - 1 <= Len(s) /\ IsWordChar(s[i - 1])
        after == i >= 1 /\ i <= Len(s) /\ IsWordChar(s[i])
    IN before # after

One(cs) == [k |-> "set", cs |-> cs, lo |-> 1, many |-> FALSE]
Opt(cs) == [k |-> "set", cs |-> cs, lo |-> 0, many |-> FALSE]
Star(cs) == [k |-> "set", cs |-> cs, lo |-> 0, many |-> TRUE]
EndAnchor == [k |-> "end"]
WordBoundary == [k |-> "wb"]
Lit(w) == [i \in 1..Len(w) |-> One({w[i]})]

Sep == {"/", "\\"}                          \* [/\\]
SpaceDash == {" ", "\t", "\n", "\r", "\f", "-"}   \* [\s-]

RECURSIVE MatchAt(_, _, _, _)
MatchAt(s, i, pat, k) ==
    IF k > Len(pat) THEN TRUE
    ELSE LET it == pat[k] IN
         CASE it.k = "end" -> i = Len(s) + 1 /\ MatchAt(s, i, pat, k + 1)
           [] it.k = "wb" -> IsBoundary(s, i) /\ MatchAt(s, i, pat, k + 1)
           [] OTHER ->
                \E n \in it.lo..(IF it.many THEN Len(s) - i + 1
                                  ELSE Min2(1, Len(s) - i + 1)) :
                    /\ \A j \in 0..(n - 1) : Lower(s[i + j]) \in it.cs
                    /\ MatchAt(s, i + n, pat, k + 1)

re_search(pat, s) == \E i \in 1..(Len(s) + 1) : MatchAt(s, i, pat, 1)

SamplePattern == Lit(<<"s","a","m","p","l","e">>)

\* core/scanner.py SKIP_PATTERNS, in the order of the source
SKIP_PATTERNS == <<
    SamplePattern,
    Lit(<<".","n","f","o">>) \o <<EndAnchor>>,
    Lit(<<".","t","x","t">>) \o <<EndAnchor>>,
    Lit(<<".","s","r","t">>) \o <<EndAnchor>>,
    Lit(<<".","s","u","b">>) \o <<EndAnchor>>,
    Lit(<<".","i","d","x">>) \o <<EndAnchor>>,
    Lit(<<".","j","p","g">>) \o <<EndAnchor>>,
    Lit(<<".","j","p","e","g">>) \o <<EndAnchor>>,
    Lit(<<".","p","n","g">>) \o <<EndAnchor>>,
    Lit(<<".","g","i","f">>) \o <<EndAnchor>>,
    Lit(<<".","b","m","p">>) \o <<EndAnchor>>,
    <<One(Sep)>> \o Lit(<<"s","u","b">>) \o <<Opt({"s"}), One(Sep)>>,
    <<One(Sep)>> \o Lit(<<"e","x","t","r","a">>) \o <<Opt({"s"}), One(Sep)>>,
    <<One(Sep)>> \o Lit(<<"f","e","a","t","u","r","e","t","t","e">>)
        \o <<Opt({"s"}), One(Sep)>>,
    <<One(Sep)>> \o Lit(<<"b","e","h","i","n","d">>) \o <<Star(SpaceDash)>>
        \o Lit(<<"t","h","e">>) \o <<Star(SpaceDash)>>
        \o Lit(<<"s","c","e","n","e">>) \o <<Opt({"s"}), One(Sep)>>,
    <<One(Sep)>> \o Lit(<<"d","e","l","e","t","e","d">>) \o <<Star(SpaceDash)>>
        \o Lit(<<"s","c","e","n","e">>) \o <<Opt({"s"}), One(Sep)>>,
    Lit(<<"t","r","a","i","l","e","r">>),
    <<WordBoundary>> \o Lit(<<"p","r","o","o","f">>) \o <<WordBoundary>>,
    Lit(<<".","s","r","r">>) \o <<EndAnchor>>
>>

MiB == 1024 * 1024

\* core/scanner.py MIN_MEDIA_SIZE
MIN_MEDIA_SIZE == 100 * 1024 * 1024

\* re.search(pattern, str(path)) for every pattern and path of the model,
\* evaluated once
SkipMatches ==
    [p \in AllPaths |->
        {n \in 1..Len(SKIP_PATTERNS) : re_search(SKIP_PATTERNS[n], PathStr(p))}]

SampleMatches == [p \in AllPaths |-> re_search(SamplePattern, PathStr(p))]

should_skip_file(file_path) == SkipMatches[file_path] # {}

\* re.search(r"(?i)sample", file_path_str)
is_sample(file_path) == SampleMatches[file_path]

\* a slip: the skip test before the sample test, and <= for <
classify_swapped(file) ==
    IF should_skip_file(file.path) /\ SkipMatches[file.path] # {1} THEN "skipped"
    ELSE IF is_sample(file.path) THEN "samples"
    ELSE IF file.size <= MIN_MEDIA_SIZE THEN "extras"
    ELSE "main_files"

\* the branch classify_files takes for one file
classify(file) ==
    IF is_sample(file.path) THEN "samples"
    ELSE IF should_skip_file(file.path) THEN "skipped"
    ELSE IF file.size < MIN_MEDIA_SIZE THEN "extras"
    ELSE "main_files"

Categories == {"main_files", "samples", "extras", "skipped"}

RECURSIVE SelectCategory(_, _)
SelectCategory(fl, cat) ==
    IF fl = <<>> THEN <<>>
    ELSE (IF classify(Head(fl)) = cat THEN <<Head(fl)>> ELSE <<>>)
         \o SelectCategory(Tail(fl), cat)

\* a slip: the sample test as an "if" of its own, so that a sample file that
\* matches a skip pattern as well is appended to both lists
classify_files_if(fl) ==
    [cat \in Categories |->
        IF cat = "skipped"
        THEN SelectIn(fl, {f \in Range(fl) : should_skip_file(f.path)})
        ELSE SelectCategory(fl, cat)]

\* a slip: samples are also listed with the main files
classify_files_samples(fl) ==
    [cat \in Categories |->
        IF cat = "main_files"
        THEN SelectIn(fl, {f \in Range(fl) : classify(f) \in {"main_files", "samples"}})
        ELSE SelectCategory(fl, cat)]

classify_files(fl) == [cat \in Categories |-> SelectCategory(fl, cat)]

\* models.MediaFile (modified, the time stamp, is left out)
MediaFile(p, sz, ino, nlink) ==
    [path |-> p, size |-> sz, inode |-> ino, hardlink_count |-> nlink]

(***************************************************************************)
(* The filesystem.  A file is a directory entry for an inode of a device;  *)
(* an inode has one size, and its link count is the number of entries      *)
(* that name it.                                                           *)
(***************************************************************************)
\* the stat of a path that names no file
NoFile == [dev |-> 0, ino |-> 0]

FsPaths == {"/tm/a.mkv", "/tm/Sample.mkv", "/tt/b.mkv", "/lm/a.mkv", "/lt/e.mkv"}

\* glob yields the entries of a tree in one fixed order
GlobOrder == <<"/lm/a.mkv", "/lt/e.mkv", "/tm/Sample.mkv", "/tm/a.mkv", "/tt/b.mkv">>

\* (st_dev, st_ino): inode 1 exists on both devices
Ids == {[dev |-> 1, ino |-> 1], [dev |-> 1, ino |-> 2], [dev |-> 2, ino |-> 1]}

\* st_size
SizeOf(id) ==
    IF id.dev = 1 /\ id.ino = 1 THEN 500 * MiB
    ELSE IF id.dev = 1 THEN 50 * MiB
    ELSE 100 * MiB

\* st_nlink
NLink(f, id) == Cardinality({p \in FsPaths : f[p] = id})

\* config.paths: torrent_movies, torrent_tv, library_movies, library_tv
torrent_movies == "/tm"
torrent_tv == "/tt"
library_movies == "/lm"
library_tv == "/lt"
Roots == {torrent_movies, torrent_tv, library_movies, library_tv}

RootChars ==
    "/tm" :> <<"/","t","m">> @@ "/tt" :> <<"/","t","t">> @@
    "/lm" :> <<"/","l","m">> @@ "/lt" :> <<"/","l","t">>

\* the path lies below the directory
IsUnder(p, d) ==
    LET pc == PathChars[p]
        dc == RootChars[d]
    IN /\ Len(pc) > Len(dc) + 1
       /\ SubSeq(pc, 1, Len(dc)) = dc
       /\ pc[Len(dc) + 1] = "/"

\* directory.glob("**/*") filtered by is_file(): the regular files below d
FilesUnder(f, d) == SelectIn(GlobOrder, {p \in FsPaths : f[p] # NoFile /\ IsUnder(p, d)})

(***************************************************************************)
(* HardlinkDetector.  inode_map is a dict in insertion order: a sequence   *)
(* of [key, val]; file_cache maps a path to the set holding its MediaFile  *)
(* (empty: no entry).                                                      *)
(***************************************************************************)
DictHas(m, k) == \E i \in 1..Len(m) : m[i].key = k

DictGet(m, k, default) ==
    IF DictHas(m, k) THEN m[CHOOSE i \in 1..Len(m) : m[i].key = k].val ELSE default

\* defaultdict(list): m[k].append(x)
DictAppend(m, k, x) ==
    IF DictHas(m, k)
    THEN [i \in 1..Len(m) |-> IF m[i].key = k
                              THEN [key |-> k, val |-> Append(m[i].val, x)]
                              ELSE m[i]]
    ELSE Append(m, [key |-> k, val |-> <<x>>])

\* _get_file_info: path.stat() packed into a MediaFile; st_dev is read by
\* stat and not kept
_get_file_info(f, p) == MediaFile(p, SizeOf(f[p]), f[p].ino, NLink(f, f[p]))

\* the key scan_directory files a MediaFile under in inode_map
index_key(f, p) == _get_file_info(f, p).inode

\* a slip: a file whose stat raises ends the loop
RECURSIVE scan_loop_break(_, _, _, _)
scan_loop_break(f, todo, denied, det) ==
    IF todo = <<>> \/ Head(todo) \in denied THEN det
    ELSE LET p == Head(todo) IN
         scan_loop_break(f, Tail(todo), denied,
                [inode_map |-> DictAppend(det.inode_map, index_key(f, p), p),
                 file_cache |-> [det.file_cache EXCEPT ![p] = {_get_file_info(f, p)}],
                 statLog |-> det.statLog \cup {<<p, f[p].dev, f[p].ino>>},
                 files |-> Append(det.files, _get_file_info(f, p))])

\* One pass of the loop of scan_directory over the listed files todo.
\* denied: the files whose stat raises OSError (skipped with a warning).
\* det is [inode_map, file_cache, statLog, files].
RECURSIVE scan_loop(_, _, _, _)
scan_loop(f, todo, denied, det) ==
    IF todo = <<>> THEN det
    ELSE LET p == Head(todo) IN
         IF p \in denied THEN scan_loop(f, Tail(todo), denied, det)
         ELSE scan_loop(f, Tail(todo), denied,
                [inode_map |-> DictAppend(det.inode_map, index_key(f, p), p),
                 file_cache |-> [det.file_cache EXCEPT ![p] = {_get_file_info(f, p)}],
                 statLog |-> det.statLog \cup {<<p, f[p].dev, f[p].ino>>},
                 files |-> Append(det.files, _get_file_info(f, p))])

\* a slip: the walk does not stop at a missing directory and lists from the
\* top of the filesystem
scan_directory_missing(f, ds, det, d, walk) ==
    LET listed == IF d \in ds THEN FilesUnder(f, d)
                  ELSE SelectIn(GlobOrder, {p \in FsPaths : f[p] # NoFile})
        upto == IF walk.abort < 0 THEN listed ELSE SubSeq(listed, 1, walk.abort)
        done == scan_loop(f, upto, walk.denied, [det EXCEPT !.files = <<>>])
    IN IF walk.abort < 0 THEN done ELSE [done EXCEPT !.files = <<>>]

\* scan_directory(directory).  walk is what the walk meets: denied as above,
\* and abort, the number of listed files handled before an exception leaves
\* the loop (-1: none does); the handler then returns [] and keeps the index
\* entries made so far.
scan_directory(f, ds, det, d, walk) ==
    IF d \notin ds THEN [det EXCEPT !.files = <<>>]
    ELSE LET listed == FilesUnder(f, d)
             upto == IF walk.abort < 0 THEN listed ELSE SubSeq(listed, 1, walk.abort)
             done == scan_loop(f, upto, walk.denied, [det EXCEPT !.files = <<>>])
         IN IF walk.abort < 0 THEN done ELSE [done EXCEPT !.files = <<>>]

Walks(f, d) ==
    LET listed == FilesUnder(f, d)
    IN {[denied |-> dn, abort |-> a] :
            dn \in SUBSET Range(listed), a \in -1..(Len(listed) - 1)}

HardlinkGroup(ino, paths, sz) ==
    [inode |-> ino, files |-> paths, total_size |-> sz, hardlink_count |-> Len(paths)]

RECURSIVE get_hardlink_groups_from(_, _, _)
get_hardlink_groups_from(imap, cache, i) ==
    IF i > Len(imap) THEN <<>>
    ELSE LET paths == imap[i].val
             first_file == cache[paths[1]]
         IN (IF Len(paths) > 1 /\ first_file # {}
             THEN <<HardlinkGroup(imap[i].key, paths,
                                  (CHOOSE mf \in first_file : TRUE).size)>>
             ELSE <<>>)
            \o get_hardlink_groups_from(imap, cache, i + 1)

get_hardlink_groups(imap, cache) == get_hardlink_groups_from(imap, cache, 1)

\* a slip: the lookup answers with the path alone
get_hardlinks_for_file_self(f, imap, file_path) ==
    IF f[file_path] = NoFile THEN <<>> ELSE <<file_path>>

\* get_hardlinks_for_file: stat raises OSError when the path names no file
get_hardlinks_for_file(f, imap, file_path) ==
    IF f[file_path] = NoFile THEN <<>>
    ELSE DictGet(imap, f[file_path].ino, <<file_path>>)

(***************************************************************************)
(* Specification of the HardlinkDetector used on its own, over a           *)
(* filesystem that other programs change.                                  *)
(***************************************************************************)
DetPaths == {"/tm/a.mkv", "/tm/Sample.mkv", "/lm/a.mkv"}

\* no call made yet, or none since clear_cache
NoCall == [op |-> "", arg |-> "", result |-> <<>>, stat |-> NoFile]

IdleFs ==
    /\ fs = [p \in FsPaths |-> NoFile]
    /\ dirs = {}

IdleDetector ==
    /\ inode_map = <<>>
    /\ file_cache = [p \in FsPaths |-> {}]
    /\ statLog = {}
    /\ ret = NoCall
    /\ nCalls = 0

IdleClassify ==
    /\ files = <<>>
    /\ classified = None

IdleScan ==
    /\ qbit = <<>>
    /\ radarr = <<>>
    /\ sonarr = <<>>
    /\ results = None

IdleCrossSeed ==
    /\ torrents = <<>>
    /\ cross_seed_groups = None

IdleRelationships ==
    /\ rel_in = <<>>
    /\ relationships = None

\* no request made yet
NoRequest == [path |-> <<>>, status |-> 0]

IdleDelete ==
    /\ disk = {}
    /\ resp = NoRequest

\* no broadcast running
NoBroadcast == [pc |-> "idle", index |-> 0, connection |-> None, failed |-> {}]

IdleBroadcast ==
    /\ active_connections = <<>>
    /\ bcast = NoBroadcast
    /\ delivered = <<>>
    /\ stayed = {}

IdleWeb == IdleDelete /\ IdleBroadcast

InitDetector ==
    /\ fs \in [FsPaths -> Ids \cup {NoFile}]
    /\ \A p \in FsPaths \ DetPaths : fs[p] = NoFile
    /\ dirs = Roots \ {torrent_tv}
    /\ IdleDetector
    /\ IdleClassify
    /\ IdleScan
    /\ IdleCrossSeed
    /\ IdleRelationships
    /\ IdleWeb

\* detector.scan_directory(d)
ScanDirectory(d, walk) ==
    /\ nCalls < MaxScans
    /\ \E det \in {scan_directory(fs, dirs,
                    [inode_map |-> inode_map, file_cache |-> file_cache,
                     statLog |-> statLog, files |-> <<>>], d, walk)} :
          /\ inode_map' = det.inode_map
          /\ file_cache' = det.file_cache
          /\ statLog' = det.statLog
          /\ ret' = [op |-> "scan_directory", arg |-> d, result |-> det.files,
                      stat |-> NoFile]
    /\ nCalls' = nCalls + 1
    /\ UNCHANGED <<fsVars, clsVars, scanVars, xseedVars, relVars, webVars>>

\* detector.get_hardlink_groups()
GetHardlinkGroups ==
    /\ ret' = [op |-> "get_hardlink_groups", arg |-> "",
                result |-> get_hardlink_groups(inode_map, file_cache), stat |-> NoFile]
    /\ UNCHANGED <<fsVars, clsVars, scanVars, xseedVars, relVars, webVars, inode_map, file_cache,
                   statLog, nCalls>>

\* detector.get_hardlinks_for_file(p)
GetHardlinksForFile(p) ==
    /\ ret' = [op |-> "get_hardlinks_for_file", arg |-> p,
                result |-> get_hardlinks_for_file(fs, inode_map, p), stat |-> fs[p]]
    /\ UNCHANGED <<fsVars, clsVars, scanVars, xseedVars, relVars, webVars, inode_map, file_cache,
                   statLog, nCalls>>

\* detector.clear_cache()
ClearCache ==
    /\ inode_map # <<>>
    /\ inode_map' = <<>>
    /\ file_cache' = [p \in FsPaths |-> {}]
    /\ statLog' = {}
    /\ ret' = NoCall
    /\ UNCHANGED <<fsVars, clsVars, scanVars, xseedVars, relVars, webVars, nCalls>>

\* another program removes the file
Unlink(p) ==
    /\ fs[p] # NoFile
    /\ fs' = [fs EXCEPT ![p] = NoFile]
    /\ UNCHANGED <<dirs, detVars, clsVars, scanVars, xseedVars, relVars, webVars>>

NextDetector ==
    \/ \E d \in Roots : \E walk \in Walks(fs, d) : ScanDirectory(d, walk)
    \/ GetHardlinkGroups
    \/ \E p \in DetPaths : GetHardlinksForFile(p)
    \/ ClearCache
    \/ \E p \in DetPaths : Unlink(p)

SpecDetector == InitDetector /\ [][NextDetector]_vars

\* the groups get_hardlink_groups has just returned
ReportedGroups == IF ret.op = "get_hardlink_groups" THEN Range(ret.result) ELSE {}

\* C1: two scanned files with equal inode number and different device id are
\* never members of the same hardlink group.
C1_GroupsShareDeviceAndInode ==
    \A g \in ReportedGroups :
        \A e1, e2 \in statLog :
            (e1[1] \in Range(g.files) /\ e2[1] \in Range(g.files) /\ e1[3] = e2[3])
            => e1[2] = e2[2]

\* the scanned files of a group that were stat'ed with the identity id
MembersWith(g, id) == {p \in Range(g.files) : <<p, id.dev, id.ino>> \in statLog}

\* C9: every reported group has at least 2 member files, its hardlink_count
\* is the number of its member files, and it stands for an identity with at
\* least 2 scanned files.
C9_GroupsHaveTwoFiles ==
    \A g \in ReportedGroups :
        /\ Len(g.files) >= 2
        /\ g.hardlink_count = Len(g.files)
        /\ \E id \in Ids : id.ino = g.inode /\ Cardinality(MembersWith(g, id)) >= 2

C20_LookupFallsBackToPath ==
    ret.op = "get_hardlinks_for_file" =>
        IF ret.stat = NoFile \/ ~DictHas(inode_map, ret.stat.ino)
        THEN ret.result = <<ret.arg>>
        ELSE ret.result = DictGet(inode_map, ret.stat.ino, <<>>)

(***************************************************************************)
(* Specification of classify_files as a pure function: Init draws the      *)
(* list, ClassifyFiles applies the function.                               *)
(***************************************************************************)
ClassifySizes == {0, 10 * MiB, 100 * MiB - 1, 100 * MiB, 500 * MiB}

ClassifyPool == {MediaFile(p, sz, 1, 1) : p \in AllPaths, sz \in ClassifySizes}

InitClassify ==
    /\ files \in SeqsUpTo(ClassifyPool, MaxFiles)
    /\ classified = None
    /\ IdleFs
    /\ IdleDetector
    /\ IdleScan
    /\ IdleCrossSeed
    /\ IdleRelationships
    /\ IdleWeb

ClassifyFiles ==
    /\ classified = None
    /\ classified' = Some(classify_files(files))
    /\ UNCHANGED <<files, fsVars, detVars, scanVars, xseedVars, relVars, webVars>>

NextClassify == ClassifyFiles

SpecClassify == InitClassify /\ [][NextClassify]_vars

\* the lists of a classification that hold the file f
ListsHolding(r, f) == {cat \in Categories : f \in Range(r[cat])}

\* C6: classify_files partitions its input: every input file is in exactly one
\* of the four lists, as often as it is in the input, and the lists hold no
\* file that was not in the input.
C6_Partition ==
    \A r \in classified :
        /\ \A f \in Range(files) :
              /\ Cardinality(ListsHolding(r, f)) = 1
              /\ \A cat \in ListsHolding(r, f) : Count(r[cat], f) = Count(files, f)
        /\ \A cat \in Categories : Range(r[cat]) \subseteq Range(files)

\* two files of different categories were classified, one of them a sample
\* that also matches a skip pattern
C6_Witness ==
    \E r \in classified :
        /\ Len(files) = 2
        /\ r["samples"] # <<>> /\ r["main_files"] # <<>>
        /\ \E f \in Range(r["samples"]) : SkipMatches[f.path] \ {1} # {}

\* the category the claim's precedence rules give a file: pattern 1 of
\* SKIP_PATTERNS is the sample pattern, 104857600 bytes are 100 MiB
C7_Expected(f) ==
    IF 1 \in SkipMatches[f.path] THEN "samples"
    ELSE IF SkipMatches[f.path] # {} THEN "skipped"
    ELSE IF f.size < 104857600 THEN "extras"
    ELSE "main_files"

\* C7: strict precedence sample > skipped > extra (size below 100 MiB) > main;
\* a file of exactly 100 MiB is main.
C7_Precedence ==
    \A r \in classified :
        \A f \in Range(files) : f \in Range(r[C7_Expected(f)])

\* a small sample that matches another skip pattern went to samples, next to
\* a main file of exactly 100 MiB
C7_Witness ==
    \E r \in classified :
        /\ \E f \in Range(r["samples"]) :
              SkipMatches[f.path] \ {1} # {} /\ f.size < 104857600
        /\ \E f \in Range(r["main_files"]) : f.size = 104857600

(***************************************************************************)
(* api/qbit_client.py.  The paths the services report are written as       *)
(* PathsConfig.remap_path has left them.                                   *)
(***************************************************************************)
\* api/qbit_client.py SKIP_PATTERNS, in the order of the source
qbit_SKIP_PATTERNS == <<
    SamplePattern,
    Lit(<<".","n","f","o">>) \o <<EndAnchor>>,
    Lit(<<".","t","x","t">>) \o <<EndAnchor>>,
    Lit(<<".","s","r","t">>) \o <<EndAnchor>>,
    Lit(<<".","s","u","b">>) \o <<EndAnchor>>,
    Lit(<<".","i","d","x">>) \o <<EndAnchor>>,
    Lit(<<".","j","p","g">>) \o <<EndAnchor>>,
    Lit(<<".","j","p","e","g">>) \o <<EndAnchor>>,
    Lit(<<".","p","n","g">>) \o <<EndAnchor>>,
    Lit(<<"t","r","a","i","l","e","r">>),
    <<WordBoundary>> \o Lit(<<"p","r","o","o","f">>) \o <<WordBoundary>>
>>

qbit_SkipMatches ==
    [p \in AllPaths |->
        {n \in 1..Len(qbit_SKIP_PATTERNS) : re_search(qbit_SKIP_PATTERNS[n], PathStr(p))}]

\* a slip: the floor of the torrent filter lies above the classifier's
should_skip_torrent_file_strict(file_path, file_size) ==
    \/ qbit_SkipMatches[file_path] # {}
    \/ file_size < 200 * 1024 * 1024

should_skip_torrent_file(file_path, file_size) ==
    \/ qbit_SkipMatches[file_path] # {}
    \/ file_size < 10 * 1024 * 1024

\* models.TorrentFile
TorrentFile(p, sz) == [path |-> p, size |-> sz]

\* models.TorrentInfo (name, category, save_path, state, added_on left out);
\* tracker is None or Some(url)
TorrentInfo(h, tr, fl) == [hash |-> h, tracker |-> tr, files |-> fl]

\* the files of a torrent that get_torrents keeps
RECURSIVE filter_torrent_files(_)
filter_torrent_files(fl) ==
    IF fl = <<>> THEN <<>>
    ELSE (IF should_skip_torrent_file(Head(fl).path, Head(fl).size)
          THEN <<>> ELSE <<TorrentFile(Head(fl).path, Head(fl).size)>>)
         \o filter_torrent_files(Tail(fl))

\* the tracker urls that start with "**" (DHT, PeX, LSD)
StarUrls == {"** [DHT] **", "** [PeX] **"}

\* the first tracker with a url that does not start with "**"
RECURSIVE tracker_url(_)
tracker_url(trackers) ==
    IF trackers = <<>> THEN None
    ELSE IF Head(trackers) # "" /\ Head(trackers) \notin StarUrls
         THEN Some(Head(trackers))
         ELSE tracker_url(Tail(trackers))

\* QBittorrentClient.get_torrents over what qBittorrent reports
get_torrents(raw) ==
    [i \in 1..Len(raw) |->
        TorrentInfo(raw[i].hash, tracker_url(raw[i].trackers),
                    filter_torrent_files(raw[i].files))]

(***************************************************************************)
(* MediaScanner._find_cross_seed_groups.  file_to_torrents is a dict in    *)
(* insertion order, keyed by the frozenset of a torrent's file paths.      *)
(***************************************************************************)
\* a slip: the key is the list of paths as the torrent gives it
file_paths_list(tfiles) == [i \in 1..Len(tfiles) |-> tfiles[i].path]

\* frozenset(f.path for f in torrent.files)
file_paths(tfiles) == {tfiles[i].path : i \in 1..Len(tfiles)}

RECURSIVE Sum(_)
Sum(s) == IF s = <<>> THEN 0 ELSE Head(s) + Sum(Tail(s))

\* a slip: torrents without files are filed too, under the empty set
RECURSIVE file_to_torrents_all(_, _)
file_to_torrents_all(ts, acc) ==
    IF ts = <<>> THEN acc
    ELSE file_to_torrents_all(Tail(ts),
            DictAppend(acc, file_paths(Head(ts).files), Head(ts)))

RECURSIVE file_to_torrents(_, _)
file_to_torrents(ts, acc) ==
    IF ts = <<>> THEN acc
    ELSE file_to_torrents(Tail(ts),
            IF Head(ts).files # <<>>
            THEN DictAppend(acc, file_paths(Head(ts).files), Head(ts))
            ELSE acc)

\* a slip: only the first torrent's tracker is collected
CrossSeedGroup_first(paths, torrent_group) ==
    [files |-> paths,
     torrents |-> torrent_group,
     trackers |-> torrent_group[1].tracker,
     total_size |-> Sum([i \in 1..Len(torrent_group[1].files) |->
                            torrent_group[1].files[i].size])]

\* models.CrossSeedGroup; files is list(file_paths), a list in the set's
\* iteration order, kept here as the set
CrossSeedGroup(paths, torrent_group) ==
    [files |-> paths,
     torrents |-> torrent_group,
     trackers |-> UNION {torrent_group[i].tracker : i \in 1..Len(torrent_group)},
     total_size |-> Sum([i \in 1..Len(torrent_group[1].files) |->
                            torrent_group[1].files[i].size])]

RECURSIVE cross_seed_groups_from(_, _)
cross_seed_groups_from(m, i) ==
    IF i > Len(m) THEN <<>>
    ELSE (IF Len(m[i].val) > 1 THEN <<CrossSeedGroup(m[i].key, m[i].val)>> ELSE <<>>)
         \o cross_seed_groups_from(m, i + 1)

_find_cross_seed_groups(ts) == cross_seed_groups_from(file_to_torrents(ts, <<>>), 1)

(***************************************************************************)
(* api/radarr_client.py and api/sonarr_client.py.                          *)
(***************************************************************************)
\* models.ArrMedia (title, folder_path, monitored, has_file left out);
\* file_path is None or Some(path)
ArrMedia(id, service, fp) == [id |-> id, service |-> service, file_path |-> fp]

\* RadarrClient.get_movies over what Radarr reports
get_movies(raw) ==
    [i \in 1..Len(raw) |->
        ArrMedia(raw[i].id, "radarr",
                 IF raw[i].hasFile /\ raw[i].movieFile # {} THEN raw[i].movieFile ELSE None)]

\* SonarrClient.get_series over what Sonarr reports
get_series(raw) == [i \in 1..Len(raw) |-> ArrMedia(raw[i].id, "sonarr", None)]

\* file_paths.append(path) for every path of ps not yet in the list
RECURSIVE AppendNew(_, _)
AppendNew(acc, ps) ==
    IF ps = <<>> THEN acc
    ELSE AppendNew(IF Head(ps) \in Range(acc) THEN acc ELSE Append(acc, Head(ps)), Tail(ps))

\* the loop of get_episode_files over the series; failing: the series whose
\* get_episode_file call raises (logged, the series is passed over)
RECURSIVE episode_files_from(_, _, _)
episode_files_from(raw, failing, acc) ==
    IF raw = <<>> THEN acc
    ELSE episode_files_from(Tail(raw), failing,
            IF Head(raw).episodeFileCount > 0 /\ Head(raw).id \notin failing
            THEN AppendNew(acc, Head(raw).episode_files)
            ELSE acc)

\* a slip: a series whose enumeration fails ends the whole call
get_episode_files_abort(raw, call) ==
    IF call.raises \/ \E i \in 1..Len(raw) : raw[i].id \in call.failing THEN None
    ELSE Some(episode_files_from(raw, call.failing, <<>>))

\* SonarrClient.get_episode_files; call is what the call meets: raises (the
\* series list cannot be fetched, the exception leaves the method) and failing.
\* None stands for the exception.
get_episode_files(raw, call) ==
    IF call.raises THEN None ELSE Some(episode_files_from(raw, call.failing, <<>>))

(***************************************************************************)
(* MediaScanner._build_file_relationships.  relationships is a dict in     *)
(* insertion order, path -> FileRelationship.                              *)
(***************************************************************************)
\* models.FileRelationship (is_orphaned, orphan_reason keep their defaults)
FileRelationship(p, sz, file_info, hardlinked, ts, arr) ==
    [file_path |-> p, size |-> sz, inode |-> file_info.inode,
     hardlink_count |-> file_info.hardlink_count, hardlinked_files |-> hardlinked,
     torrents |-> ts, arr_services |-> arr]

\* next((f for f in all_files if f.path == p), None)
file_info_of(all_files, p) ==
    LET hits == {i \in 1..Len(all_files) : all_files[i].path = p}
    IN IF hits = {} THEN None
       ELSE Some(all_files[CHOOSE i \in hits : \A j \in hits : i <= j])

\* relationships[p].torrents.append(h)
AppendTorrent(rels, p, h) ==
    [i \in 1..Len(rels) |->
        IF rels[i].key = p
        THEN [rels[i] EXCEPT !.val.torrents = Append(@, h)] ELSE rels[i]]

\* relationships[p].arr_services.append(service)
AppendService(rels, p, service) ==
    [i \in 1..Len(rels) |->
        IF rels[i].key = p
        THEN [rels[i] EXCEPT !.val.arr_services = Append(@, service)] ELSE rels[i]]

\* the (torrent, tfile) pairs in the order the nested loops visit them
RECURSIVE torrent_claims(_)
torrent_claims(ts) ==
    IF ts = <<>> THEN <<>>
    ELSE [i \in 1..Len(Head(ts).files) |->
            [hash |-> Head(ts).hash, tfile |-> Head(ts).files[i]]]
         \o torrent_claims(Tail(ts))

\* "Process torrent files"
RECURSIVE process_torrent_files(_, _, _, _, _)
process_torrent_files(claims, rels, all_files, f, imap) ==
    IF claims = <<>> THEN rels
    ELSE LET tfile == Head(claims).tfile
             file_info == file_info_of(all_files, tfile.path)
             made == IF ~DictHas(rels, tfile.path) /\ file_info # None
                     THEN Append(rels,
                            [key |-> tfile.path,
                             val |-> FileRelationship(tfile.path, tfile.size,
                                        CHOOSE mf \in file_info : TRUE,
                                        get_hardlinks_for_file(f, imap, tfile.path),
                                        <<>>, <<>>)])
                     ELSE rels
         IN process_torrent_files(Tail(claims),
                IF DictHas(made, tfile.path)
                THEN AppendTorrent(made, tfile.path, Head(claims).hash) ELSE made,
                all_files, f, imap)

\* "Process Radarr files" and "Process Sonarr files": the same steps for the
\* paths a service claims
RECURSIVE process_arr_files(_, _, _, _, _, _)
process_arr_files(paths, service, rels, all_files, f, imap) ==
    IF paths = <<>> THEN rels
    ELSE LET file_path == Head(paths)
             file_info == file_info_of(all_files, file_path)
         IN process_arr_files(Tail(paths), service,
                IF DictHas(rels, file_path) THEN AppendService(rels, file_path, service)
                ELSE IF file_info # None
                THEN Append(rels,
                        [key |-> file_path,
                         val |-> FileRelationship(file_path,
                                    (CHOOSE mf \in file_info : TRUE).size,
                                    CHOOSE mf \in file_info : TRUE,
                                    get_hardlinks_for_file(f, imap, file_path),
                                    <<>>, <<service>>)])
                ELSE rels,
                all_files, f, imap)

\* the file_path of the media records that have one, in list order
RECURSIVE media_file_paths(_)
media_file_paths(media) ==
    IF media = <<>> THEN <<>>
    ELSE (IF Head(media).file_path # None
          THEN <<CHOOSE p \in Head(media).file_path : TRUE>> ELSE <<>>)
         \o media_file_paths(Tail(media))

\* sonarr_files is what get_episode_files gave this call: None when it
\* raised (the except clause logs and goes on)
_build_file_relationships(ts, radarr_media, sonarr_files, all_files, f, imap) ==
    LET r1 == process_torrent_files(torrent_claims(ts), <<>>, all_files, f, imap)
        r2 == process_arr_files(media_file_paths(radarr_media), "radarr", r1,
                                all_files, f, imap)
        r3 == IF sonarr_files = None THEN r2
              ELSE process_arr_files(CHOOSE l \in sonarr_files : TRUE, "sonarr", r2,
                                     all_files, f, imap)
    IN [i \in 1..Len(r3) |-> r3[i].val]

(***************************************************************************)
(* MediaScanner._find_orphaned_files.                                      *)
(***************************************************************************)
\* models.OrphanedFile (modified left out)
OrphanedFile(p, sz, location, reason) ==
    [path |-> p, size |-> sz, location |-> location, reason |-> reason]

\* the entries of fl whose path is not in tracked, as OrphanedFile
RECURSIVE orphans_of(_, _, _, _)
orphans_of(fl, tracked, location, reason) ==
    IF fl = <<>> THEN <<>>
    ELSE (IF Head(fl).path \notin tracked
          THEN <<OrphanedFile(Head(fl).path, Head(fl).size, location, reason)>>
          ELSE <<>>)
         \o orphans_of(Tail(fl), tracked, location, reason)

\* a slip: only the first torrent's files count as tracked
_find_orphaned_files_first(torrent_files, library_files, ts, radarr_media, sonarr_files) ==
    LET torrent_tracked_paths ==
            IF ts = <<>> THEN {}
            ELSE {ts[1].files[j].path : j \in 1..Len(ts[1].files)}
        radarr_tracked_paths == Range(media_file_paths(radarr_media))
        sonarr_tracked_paths == UNION {Range(l) : l \in sonarr_files}
    IN orphans_of(torrent_files, torrent_tracked_paths, "torrent",
                  "Not tracked by any torrent")
       \o orphans_of(library_files, radarr_tracked_paths \cup sonarr_tracked_paths,
                     "library", "Not tracked by Radarr or Sonarr")

\* a slip: the library check asks Radarr alone
_find_orphaned_files_radarr(torrent_files, library_files, ts, radarr_media, sonarr_files) ==
    LET torrent_tracked_paths ==
            UNION {{ts[i].files[j].path : j \in 1..Len(ts[i].files)} : i \in 1..Len(ts)}
        radarr_tracked_paths == Range(media_file_paths(radarr_media))
    IN orphans_of(torrent_files, torrent_tracked_paths, "torrent",
                  "Not tracked by any torrent")
       \o orphans_of(library_files, radarr_tracked_paths,
                     "library", "Not tracked by Radarr or Sonarr")

\* sonarr_files is what get_episode_files gave this call: None when it raised
\* (sonarr_tracked_paths then stays the empty set)
_find_orphaned_files(torrent_files, library_files, ts, radarr_media, sonarr_files) ==
    LET torrent_tracked_paths ==
            UNION {{ts[i].files[j].path : j \in 1..Len(ts[i].files)} : i \in 1..Len(ts)}
        radarr_tracked_paths == Range(media_file_paths(radarr_media))
        sonarr_tracked_paths == UNION {Range(l) : l \in sonarr_files}
    IN orphans_of(torrent_files, torrent_tracked_paths, "torrent",
                  "Not tracked by any torrent")
       \o orphans_of(library_files, radarr_tracked_paths \cup sonarr_tracked_paths,
                     "library", "Not tracked by Radarr or Sonarr")

(***************************************************************************)
(* MediaScanner.scan_all.                                                  *)
(***************************************************************************)
\* what the walk of root d meets in a scan: inp.denied are the files whose
\* stat raises, inp.unreadable the roots whose listing raises at once
walk_of(inp, d) ==
    [denied |-> inp.denied, abort |-> IF d \in inp.unreadable THEN 0 ELSE -1]

\* for path in roots: if path.exists(): raw.extend(scan_directory(path)).
\* The result is the detector with files holding the extended list.
RECURSIVE scan_roots(_, _, _, _, _, _)
scan_roots(f, ds, det, roots, inp, raw) ==
    IF roots = <<>> THEN [det EXCEPT !.files = raw]
    ELSE IF Head(roots) \notin ds THEN scan_roots(f, ds, det, Tail(roots), inp, raw)
    ELSE LET done == scan_directory(f, ds, det, Head(roots), walk_of(inp, Head(roots)))
         IN scan_roots(f, ds, done, Tail(roots), inp, raw \o done.files)

\* models.ScanResults: the lists scan_all fills in, the count it takes from
\* _find_cross_seed_groups, and beside them what the call met (met: the files
\* and roots that raised, what the two get_episode_files calls gave and what
\* those calls met) and the main files of the two scans (torrent_files,
\* library_files)
ScanResults(ts, radarr_media, sonarr_media, groups, rels, orphaned, n, met, tf, lf) ==
    [torrents |-> ts, radarr_media |-> radarr_media, sonarr_media |-> sonarr_media,
     hardlink_groups |-> groups, file_relationships |-> rels,
     orphaned_files |-> orphaned, cross_seeded_groups |-> n,
     met |-> met, torrent_files |-> tf, library_files |-> lf]

\* scan_all with the three mandatory fetches succeeding.  The result is
\* [det, results]: the detector after the call and the ScanResults returned.
scan_all(f, ds, det, q, r, s, inp) ==
    LET ts == get_torrents(q)
        radarr_media == get_movies(r)
        sonarr_media == get_series(s)
        tdet == scan_roots(f, ds, det, <<torrent_movies, torrent_tv>>, inp, <<>>)
        torrent_files == classify_files(tdet.files)["main_files"]
        ldet == scan_roots(f, ds, tdet, <<library_movies, library_tv>>, inp, <<>>)
        library_files == classify_files(ldet.files)["main_files"]
        groups == get_hardlink_groups(ldet.inode_map, ldet.file_cache)
        build_files == get_episode_files(s, inp.build)
        orphan_files == get_episode_files(s, inp.orphan)
        rels == _build_file_relationships(ts, radarr_media, build_files,
                    torrent_files \o library_files, f, ldet.inode_map)
        orphaned == _find_orphaned_files(torrent_files, library_files, ts, radarr_media,
                        orphan_files)
    IN [det |-> ldet,
        results |-> ScanResults(ts, radarr_media, sonarr_media, groups, rels, orphaned,
                        Len(_find_cross_seed_groups(ts)),
                        [denied |-> inp.denied, unreadable |-> inp.unreadable,
                         build |-> build_files, orphan |-> orphan_files,
                         calls |-> <<inp.build, inp.orphan>>],
                        torrent_files, library_files)]

\* a slip: a fetch that raises is caught and an empty ScanResults returned
scan_all_call_partial(f, ds, det, q, r, s, inp) ==
    IF inp.fails # ""
    THEN [det |-> det, error |-> None,
          results |-> Some(ScanResults(<<>>, <<>>, <<>>, <<>>, <<>>, <<>>, 0,
                        [denied |-> inp.denied, unreadable |-> inp.unreadable,
                         build |-> None, orphan |-> None,
                         calls |-> <<inp.build, inp.orphan>>], <<>>, <<>>))]
    ELSE LET out == scan_all(f, ds, det, q, r, s, inp)
         IN [det |-> out.det, error |-> None, results |-> Some(out.results)]

\* a scan_all call as its caller sees it.  inp.fails names the client whose
\* mandatory fetch raises ("": none): get_torrents, get_movies and get_series
\* run before any directory is scanned, and the except clause of scan_all
\* logs and raises again.  error is None or Some(the client that raised).
scan_all_call(f, ds, det, q, r, s, inp) ==
    IF inp.fails # ""
    THEN [det |-> det, error |-> Some(inp.fails), results |-> None]
    ELSE LET out == scan_all(f, ds, det, q, r, s, inp)
         IN [det |-> out.det, error |-> None, results |-> Some(out.results)]

(***************************************************************************)
(* Specification of _find_cross_seed_groups as a pure function: Init draws *)
(* the torrent list, FindCrossSeedGroups applies the function.             *)
(***************************************************************************)
MaxTorrents == 3        \* longest list handed to _find_cross_seed_groups

Hashes == <<"h1", "h2", "h3", "h4", "h5">>

TrackerUrls == {"tracker-a", "tracker-b"}

\* file lists over three paths: orders, a repeated path, a superset, none
CrossSeedFileLists ==
    LET A == TorrentFile("/tm/a.mkv", 500 * MiB)
        B == TorrentFile("/tt/b.mkv", 100 * MiB)
        C == TorrentFile("/tm/extras/a.mkv", 50 * MiB)
    IN {<<>>, <<A, B>>, <<B, A>>, <<A, B, C>>, <<A, A, B>>}

CrossSeedPool ==
    [tracker : {None} \cup {Some(u) : u \in TrackerUrls}, files : CrossSeedFileLists]

InitCrossSeed ==
    /\ \E c \in SeqsUpTo(CrossSeedPool, MaxTorrents) :
          torrents = [i \in 1..Len(c) |-> TorrentInfo(Hashes[i], c[i].tracker, c[i].files)]
    /\ cross_seed_groups = None
    /\ IdleFs
    /\ IdleDetector
    /\ IdleClassify
    /\ IdleScan
    /\ IdleRelationships
    /\ IdleWeb

FindCrossSeedGroups ==
    /\ cross_seed_groups = None
    /\ cross_seed_groups' = Some(_find_cross_seed_groups(torrents))
    /\ UNCHANGED <<torrents, fsVars, detVars, clsVars, scanVars, relVars, webVars>>

NextCrossSeed == FindCrossSeedGroups

SpecCrossSeed == InitCrossSeed /\ [][NextCrossSeed]_vars

\* the set of paths a torrent references
PathSet(t) == {t.files[i].path : i \in 1..Len(t.files)}

\* the torrents t1 and t2 are members of one reported group
GroupedTogether(gs, t1, t2) ==
    \E k \in 1..Len(gs) : t1 \in Range(gs[k].torrents) /\ t2 \in Range(gs[k].torrents)

\* C5: torrents are grouped by the set of file paths they reference, whatever
\* the order and repetition of the paths in their lists: every reported group
\* has at least 2 torrents, two torrents of one group reference the same set,
\* two torrents with the same non-empty set are in one group, and no torrent
\* is in two groups.
C5_GroupedByPathSet ==
    \A gs \in cross_seed_groups :
        /\ \A k \in 1..Len(gs) :
              /\ Cardinality(Range(gs[k].torrents)) >= 2
              /\ Range(gs[k].torrents) \subseteq Range(torrents)
        /\ \A t1, t2 \in Range(torrents) :
              /\ GroupedTogether(gs, t1, t2) => PathSet(t1) = PathSet(t2)
              /\ (t1 # t2 /\ PathSet(t1) = PathSet(t2) /\ PathSet(t1) # {})
                    => GroupedTogether(gs, t1, t2)
        /\ \A k1, k2 \in 1..Len(gs) :
              k1 # k2 => Range(gs[k1].torrents) \cap Range(gs[k2].torrents) = {}

\* a group was reported whose torrents list the same paths in different
\* orders, while a torrent with a larger path set was left out of it
C5_Witness ==
    \E gs \in cross_seed_groups : \E k \in 1..Len(gs) :
        /\ \E t1, t2 \in Range(gs[k].torrents) :
              /\ t1.files # t2.files
              /\ Len(t1.files) = Len(t2.files)
        /\ \E t3 \in Range(torrents) :
              /\ t3 \notin Range(gs[k].torrents)
              /\ \A t \in Range(gs[k].torrents) :
                    PathSet(t) \subseteq PathSet(t3) /\ PathSet(t) # PathSet(t3)

\* C27: a torrent whose file list is empty is in no reported group.
C27_EmptyTorrentsUngrouped ==
    \A gs \in cross_seed_groups : \A k \in 1..Len(gs) :
        \A t \in Range(gs[k].torrents) : t.files # <<>>

\* the groups were computed for a list in which two torrents have no files
C27_Witness ==
    /\ cross_seed_groups # None
    /\ Cardinality({i \in 1..Len(torrents) : torrents[i].files = <<>>}) >= 2

\* C21: the trackers of every reported group are exactly the tracker URLs
\* that the group's torrents have; a torrent without a tracker adds nothing.
C21_TrackersOfGroup ==
    \A gs \in cross_seed_groups : \A k \in 1..Len(gs) :
        gs[k].trackers =
            {u \in TrackerUrls : \E t \in Range(gs[k].torrents) : t.tracker = Some(u)}

\* a group was reported with trackers tracker-a and tracker-b whose first
\* torrent has no tracker
C21_Witness ==
    \E gs \in cross_seed_groups : \E k \in 1..Len(gs) :
        /\ gs[k].trackers = {"tracker-a", "tracker-b"}
        /\ gs[k].torrents[1].tracker = None
        /\ Len(gs[k].torrents) = 3

(***************************************************************************)
(* Specification of MediaScanner: scan_all called again and again on one   *)
(* scanner, over a filesystem and services that do not change.             *)
(***************************************************************************)
\* the filesystems scanned: /tm/a.mkv and /lm/a.mkv are links to one 500 MiB
\* file, /tm/Sample.mkv is a 50 MiB sample, /tt/b.mkv and /lt/e.mkv are links
\* to one 100 MiB file, or /tt/b.mkv is a link to the 50 MiB file; every file
\* but the sample may be missing
ScanFilesystems ==
    {f \in [FsPaths -> Ids \cup {NoFile}] :
        /\ f["/tm/a.mkv"] \in {NoFile, [dev |-> 1, ino |-> 1]}
        /\ f["/lm/a.mkv"] \in {NoFile, [dev |-> 1, ino |-> 1]}
        /\ f["/tm/Sample.mkv"] = [dev |-> 1, ino |-> 2]
        /\ f["/tt/b.mkv"] \in {NoFile, [dev |-> 2, ino |-> 1], [dev |-> 1, ino |-> 2]}
        /\ f["/lt/e.mkv"] \in {NoFile, [dev |-> 2, ino |-> 1]}}

\* what qBittorrent may report
QbitReports ==
    LET T1 == [hash |-> "h1", trackers |-> <<"** [DHT] **", "tracker-a">>,
               files |-> <<TorrentFile("/tm/a.mkv", 500 * MiB),
                           TorrentFile("/tm/Sample.mkv", 50 * MiB)>>]
        T2 == [hash |-> "h2", trackers |-> <<>>,
               files |-> <<TorrentFile("/tt/b.mkv", 100 * MiB)>>]
        T3 == [hash |-> "h3", trackers |-> <<"tracker-b">>,
               files |-> <<TorrentFile("/tm/a.mkv", 500 * MiB)>>]
    IN {<<>>, <<T1, T2>>, <<T1, T3>>}

\* what Radarr may report: a movie without a file, a movie with one
RadarrReports ==
    LET M1 == [id |-> 1, hasFile |-> FALSE, movieFile |-> None]
        M2 == [id |-> 2, hasFile |-> TRUE, movieFile |-> Some("/lm/a.mkv")]
    IN {<<M1>>, <<M1, M2>>}

\* what Sonarr may report: two series that share an episode file
SonarrReports ==
    LET S1 == [id |-> 1, episodeFileCount |-> 1, episode_files |-> <<"/lt/e.mkv">>]
        S2 == [id |-> 2, episodeFileCount |-> 2,
               episode_files |-> <<"/lt/e.mkv", "/lm/a.mkv">>]
    IN {<<>>, <<S1, S2>>}

\* what a get_episode_files call may meet
SonarrCalls ==
    {[raises |-> FALSE, failing |-> {}], [raises |-> FALSE, failing |-> {2}],
     [raises |-> TRUE, failing |-> {}]}

\* what a scan may meet: nothing, one file that cannot be stat'ed, one root
\* that cannot be listed, or get_episode_files calls that fail
ScanInputs ==
    LET clean == [denied |-> {}, unreadable |-> {}, fails |-> "",
                  build |-> [raises |-> FALSE, failing |-> {}],
                  orphan |-> [raises |-> FALSE, failing |-> {}]]
    IN {[clean EXCEPT !.denied = {"/tm/a.mkv"}],
        [clean EXCEPT !.unreadable = {library_tv}]}
       \cup {[clean EXCEPT !.build = b, !.orphan = o] : b, o \in SonarrCalls}

InitScan ==
    /\ fs \in ScanFilesystems
    /\ dirs = {d \in Roots : d # torrent_tv \/ fs["/tt/b.mkv"] # NoFile}
    /\ qbit \in QbitReports
    /\ radarr \in RadarrReports
    /\ sonarr \in SonarrReports
    /\ results = None
    /\ IdleDetector
    /\ IdleClassify
    /\ IdleCrossSeed
    /\ IdleRelationships
    /\ IdleWeb

\* scanner.scan_all() returns a ScanResults
ScanAll(inp) ==
    /\ nCalls < MaxScans
    /\ \E out \in {scan_all_call(fs, dirs,
                    [inode_map |-> inode_map, file_cache |-> file_cache,
                     statLog |-> statLog, files |-> <<>>],
                    qbit, radarr, sonarr, inp)} :
          /\ inode_map' = out.det.inode_map
          /\ file_cache' = out.det.file_cache
          /\ statLog' = out.det.statLog
          /\ results' = out.results
          /\ ret' = [op |-> "scan_all", arg |-> inp.fails,
                      result |-> IF out.error = None THEN <<>>
                                 ELSE <<CHOOSE e \in out.error : TRUE>>,
                      stat |-> NoFile]
    /\ nCalls' = nCalls + 1
    /\ UNCHANGED <<fsVars, svcVars, clsVars, xseedVars, relVars, webVars>>

\* the clients whose fetch scan_all cannot do without
MandatoryClients == {"qbit", "radarr", "sonarr"}

\* scanner.scan_all() while get_torrents, get_movies or get_series raises
ScanAllRaises(who) ==
    ScanAll([denied |-> {}, unreadable |-> {}, fails |-> who,
             build |-> [raises |-> FALSE, failing |-> {}],
             orphan |-> [raises |-> FALSE, failing |-> {}]])

NextScan ==
    \/ \E inp \in ScanInputs : ScanAll(inp)
    \/ \E who \in MandatoryClients : ScanAllRaises(who)

SpecScan == InitScan /\ [][NextScan]_vars

\* the paths of a list of MediaFile, OrphanedFile or FileRelationship records
PathsOf(fl) == {fl[i].path : i \in 1..Len(fl)}

\* the paths the torrents of a result list
TorrentPaths(r) == UNION {PathSet(t) : t \in Range(r.torrents)}

\* the movie file paths of the Radarr records of a result
RadarrPaths(r) == UNION {m.file_path : m \in Range(r.radarr_media)}

\* the orphans of a result reported for a location
OrphanPaths(r, location) ==
    {o.path : o \in {x \in Range(r.orphaned_files) : x.location = location}}

\* C2 as stated: the relationships of a scan hold exactly one entry per path,
\* and their paths are the union of the scanned files' paths, the paths the
\* torrents list and the paths the media managers claim.
C2_NoPathDropped ==
    \A r \in results :
        LET rel_paths == {r.file_relationships[i].file_path :
                            i \in 1..Len(r.file_relationships)}
        IN /\ Cardinality(rel_paths) = Len(r.file_relationships)
           /\ rel_paths = PathsOf(r.torrent_files) \cup PathsOf(r.library_files)
                          \cup TorrentPaths(r) \cup RadarrPaths(r)
                          \cup UNION {Range(l) : l \in r.met.build}

\* C3: a main file found under a torrent root is reported as an orphan of
\* location "torrent" if and only if no torrent lists its path, and no other
\* path is reported with that location.
C3_TorrentOrphans ==
    \A r \in results :
        /\ \A mf \in Range(r.torrent_files) :
              mf.path \in OrphanPaths(r, "torrent") <=> mf.path \notin TorrentPaths(r)
        /\ OrphanPaths(r, "torrent") \subseteq PathsOf(r.torrent_files)

\* a scan found a main file that a torrent lists and one that none lists,
\* while qBittorrent reported a file that get_torrents filtered out
C3_Witness ==
    \E r \in results :
        /\ OrphanPaths(r, "torrent") # {}
        /\ PathsOf(r.torrent_files) \ OrphanPaths(r, "torrent") # {}
        /\ \E i \in 1..Len(qbit) : Len(qbit[i].files) > Len(r.torrents[i].files)

\* C4: a main file found under a library root is reported as an orphan of
\* location "library" if and only if its path is neither a Radarr movie file
\* path nor one of the Sonarr episode file paths that get_episode_files gave
\* the orphan detection (none when the call failed), and no other path is
\* reported with that location.
C4_LibraryOrphans ==
    \A r \in results :
        LET sonarr_paths == UNION {Range(l) : l \in r.met.orphan}
        IN /\ \A mf \in Range(r.library_files) :
                 mf.path \in OrphanPaths(r, "library")
                     <=> (mf.path \notin RadarrPaths(r) /\ mf.path \notin sonarr_paths)
           /\ OrphanPaths(r, "library") \subseteq PathsOf(r.library_files)

\* a scan found a library file that only Sonarr claims and one that neither
\* service claims
C4_Witness ==
    \E r \in results :
        /\ OrphanPaths(r, "library") # {}
        /\ \E mf \in Range(r.library_files) :
              /\ mf.path \in UNION {Range(l) : l \in r.met.orphan}
              /\ mf.path \notin RadarrPaths(r)

\* C10 as stated: a scan_all call that follows another on the same scanner,
\* meets the same as that one did and finds the filesystem and the services
\* unchanged, returns the same hardlink groups, relationships and orphans.
C10_SecondScanSame ==
    [][\A r1 \in results : \A r2 \in results' :
          (nCalls' = nCalls + 1 /\ r2.met = r1.met /\ fs' = fs /\ qbit' = qbit
              /\ radarr' = radarr /\ sonarr' = sonarr)
          => /\ r2.hardlink_groups = r1.hardlink_groups
             /\ r2.file_relationships = r1.file_relationships
             /\ r2.orphaned_files = r1.orphaned_files]_vars

\* C11: when get_torrents, get_movies or get_series raises, scan_all raises
\* that client's error and its caller gets no ScanResults.
C11_MandatoryFailureAborts ==
    (ret.op = "scan_all" /\ ret.arg # "") => (results = None /\ ret.result = <<ret.arg>>)

\* get_series raised in a scan_all call that followed a scan that had
\* returned results and filled the index
C11_Witness ==
    /\ ret.op = "scan_all"
    /\ ret.arg = "sonarr"
    /\ nCalls = 2
    /\ inode_map # <<>>

\* the episode files Sonarr holds for the series whose enumeration works
EnumerablePaths(call) ==
    UNION {Range(sonarr[i].episode_files) :
            i \in {j \in 1..Len(sonarr) : /\ sonarr[j].episodeFileCount > 0
                                            /\ sonarr[j].id \notin call.failing}}

\* C12: a scan_all call whose mandatory fetches work returns a ScanResults
\* whatever get_episode_files does.  When the call made for the relationships
\* raises, no relationship names sonarr; when the call made for the orphans
\* raises, the library orphans are the library main files Radarr does not
\* claim; and a call that does not raise gives the episode files of every
\* series whose own enumeration did not fail.
C12_SonarrFailureDegrades ==
    /\ (ret.op = "scan_all" /\ ret.arg = "") => results # None
    /\ \A r \in results :
          /\ r.met.calls[1].raises =>
                \A i \in 1..Len(r.file_relationships) :
                    "sonarr" \notin Range(r.file_relationships[i].arr_services)
          /\ r.met.calls[2].raises =>
                OrphanPaths(r, "library") = PathsOf(r.library_files) \ RadarrPaths(r)
          /\ ~r.met.calls[1].raises =>
                \E l \in r.met.build : EnumerablePaths(r.met.calls[1]) \subseteq Range(l)
          /\ ~r.met.calls[2].raises =>
                \E l \in r.met.orphan : EnumerablePaths(r.met.calls[2]) \subseteq Range(l)

\* a scan returned results although the get_episode_files call made for the
\* relationships raised and, in the call made for the orphans, the
\* enumeration of one series failed while another series had episode files,
\* one of them found in the library
C12_Witness ==
    \E r \in results :
        /\ r.met.calls[1].raises
        /\ r.met.calls[2].failing # {}
        /\ EnumerablePaths(r.met.calls[2]) \cap PathsOf(r.library_files) # {}

\* C13 as stated: scan_all returns no ScanResults from a scan in which a root
\* that exists could not be listed.
C13_UnreadableRootAborts ==
    \A r \in results : r.met.unreadable \cap dirs = {}

RelFs ==
    [p \in FsPaths |->
        IF p \in {"/tm/a.mkv", "/lm/a.mkv"} THEN [dev |-> 1, ino |-> 1] ELSE NoFile]

\* the all_files argument: main files of the scans
RelFileLists ==
    {<<>>, <<_get_file_info(RelFs, "/tm/a.mkv")>>,
     <<_get_file_info(RelFs, "/tm/a.mkv"), _get_file_info(RelFs, "/lm/a.mkv")>>}

\* file lists of a torrent: none, one file, the file with another size, the
\* file listed twice, a library path
RelTorrentFileLists ==
    {<<>>,
     <<TorrentFile("/tm/a.mkv", 500 * MiB)>>,
     <<TorrentFile("/tm/a.mkv", 400 * MiB)>>,
     <<TorrentFile("/tm/a.mkv", 500 * MiB), TorrentFile("/tm/a.mkv", 500 * MiB)>>,
     <<TorrentFile("/lm/a.mkv", 500 * MiB)>>}

\* Radarr records: none, a movie without a file, one movie, two movies that
\* share a file path
RelRadarrLists ==
    {<<>>,
     <<ArrMedia(1, "radarr", None)>>,
     <<ArrMedia(1, "radarr", Some("/lm/a.mkv"))>>,
     <<ArrMedia(1, "radarr", Some("/lm/a.mkv")), ArrMedia(2, "radarr", Some("/lm/a.mkv"))>>}

\* what get_episode_files gives: its list holds no path twice
RelSonarrFiles == {None, Some(<<>>), Some(<<"/lm/a.mkv">>), Some(<<"/lm/a.mkv", "/lt/e.mkv">>)}

InitRelationships ==
    /\ \E fl \in SeqsUpTo(RelTorrentFileLists, MaxTorrents) :
       \E af \in RelFileLists, rm \in RelRadarrLists, sf \in RelSonarrFiles :
          rel_in = [torrents |-> [i \in 1..Len(fl) |-> TorrentInfo(Hashes[i], None, fl[i])],
                    radarr_media |-> rm, sonarr_files |-> sf, all_files |-> af]
    /\ relationships = None
    /\ fs = RelFs
    /\ dirs = Roots
    /\ IdleDetector
    /\ IdleClassify
    /\ IdleScan
    /\ IdleCrossSeed
    /\ IdleWeb

BuildFileRelationships ==
    /\ relationships = None
    /\ relationships' = Some(_build_file_relationships(rel_in.torrents,
                                rel_in.radarr_media, rel_in.sonarr_files,
                                rel_in.all_files, fs, inode_map))
    /\ UNCHANGED <<rel_in, fsVars, detVars, clsVars, scanVars, xseedVars, webVars>>

NextRelationships == BuildFileRelationships

SpecRelationships == InitRelationships /\ [][NextRelationships]_vars

\* no entry of the list s is in it twice
NoRepeats(s) == Cardinality(Range(s)) = Len(s)

\* C15 as stated: in every relationship each torrent hash is at most once in
\* torrents and each service name at most once in arr_services, and a path
\* that Radarr and Sonarr both claim lists both services.
C15_ClaimsDeduplicated ==
    \A rels \in relationships : \A i \in 1..Len(rels) :
        /\ NoRepeats(rels[i].torrents)
        /\ NoRepeats(rels[i].arr_services)
        /\ (/\ rels[i].file_path \in Range(media_file_paths(rel_in.radarr_media))
            /\ rels[i].file_path \in UNION {Range(l) : l \in rel_in.sonarr_files})
           => {"radarr", "sonarr"} \subseteq Range(rels[i].arr_services)

\* the lists with the entries of s in another order
Reorderings(s) ==
    {[i \in 1..Len(s) |-> s[f[i]]] :
        f \in {g \in [1..Len(s) -> 1..Len(s)] : \A a, b \in 1..Len(s) : g[a] = g[b] => a = b}}

\* what a list of relationships says of each path: size, identity, the set of
\* torrent hashes and the set of service names
Content(rels) ==
    {[file_path |-> rels[i].file_path, size |-> rels[i].size, inode |-> rels[i].inode,
      hardlink_count |-> rels[i].hardlink_count,
      torrents |-> Range(rels[i].torrents),
      arr_services |-> Range(rels[i].arr_services)] : i \in 1..Len(rels)}

\* C16 as stated: the torrent list and the Radarr list in any other order
\* give the same size, identity, set of torrent hashes and set of service
\* names for each path.
C16_OrderIndependent ==
    \A rels \in relationships :
        \A ts \in Reorderings(rel_in.torrents), rm \in Reorderings(rel_in.radarr_media) :
            Content(_build_file_relationships(ts, rm, rel_in.sonarr_files,
                                              rel_in.all_files, fs, inode_map))
                = Content(rels)

\* the files under the roots ds that a scan found: they exist and their stat
\* did not raise
FoundUnder(r, ds) ==
    {p \in FsPaths : /\ fs[p] # NoFile
                     /\ p \notin r.met.denied
                     /\ \E d \in (ds \cap dirs) \ r.met.unreadable : IsUnder(p, d)}

\* C17 as stated: a file found under a torrent root that matches no sample or
\* skip pattern is a main file of the scan when its size is at least 10 MiB;
\* a file found under a library root that matches none is a main file exactly
\* when its size is at least 100 MiB.
C17_FloorsDifferByRoot ==
    \A r \in results :
        /\ \A p \in FoundUnder(r, {torrent_movies, torrent_tv}) :
              (SkipMatches[p] = {} /\ SizeOf(fs[p]) >= 10 * MiB)
              => p \in PathsOf(r.torrent_files)
        /\ \A p \in FoundUnder(r, {library_movies, library_tv}) :
              SkipMatches[p] = {}
              => (p \in PathsOf(r.library_files) <=> SizeOf(fs[p]) >= 100 * MiB)

\* C18: every reported orphan is an existing file that classify puts in
\* main_files; a file classified sample, extra or skipped is not reported,
\* whatever the torrents and the media managers list.
C18_OnlyMainFilesOrphaned ==
    \A r \in results :
        \A o \in Range(r.orphaned_files) :
            /\ fs[o.path] # NoFile
            /\ classify(_get_file_info(fs, o.path)) = "main_files"

\* a scan reported an orphan while it found a sample and an extra file under
\* the torrent roots that no torrent qBittorrent reported lists
C18_Witness ==
    \E r \in results :
        /\ r.orphaned_files # <<>>
        /\ \E p, q \in FoundUnder(r, {torrent_movies, torrent_tv}) :
              /\ classify(_get_file_info(fs, p)) = "samples"
              /\ classify(_get_file_info(fs, q)) = "extras"
              /\ \A i \in 1..Len(qbit) :
                    {p, q} \cap {qbit[i].files[j].path : j \in 1..Len(qbit[i].files)} = {}

\* C19 as stated: two consecutive runs of the orphan detection over the same
\* classified files, torrents and media records, with Sonarr holding the same
\* series and episode files, report the same set of orphans.
C19_OrphansIdempotent ==
    [][\A r1 \in results : \A r2 \in results' :
          (/\ nCalls' = nCalls + 1
           /\ r2.torrent_files = r1.torrent_files
           /\ r2.library_files = r1.library_files
           /\ r2.torrents = r1.torrents
           /\ r2.radarr_media = r1.radarr_media
           /\ r2.sonarr_media = r1.sonarr_media
           /\ sonarr' = sonarr)
          => Range(r2.orphaned_files) = Range(r1.orphaned_files)]_vars

\* C22 as stated: every reported orphan of location "torrent" carries the
\* reason "Not tracked by any torrent" and every reported orphan of location
\* "library" the reason "Not tracked by library services"; there is no other
\* location.
C22_FixedReasons ==
    \A r \in results : \A o \in Range(r.orphaned_files) :
        \/ o.location = "torrent" /\ o.reason = "Not tracked by any torrent"
        \/ o.location = "library" /\ o.reason = "Not tracked by library services"

\* C23: a configured root that does not exist is no error.  scan_directory
\* on it returns the empty list and leaves inode_map and file_cache as they
\* are, and a scan_all whose mandatory fetches succeed returns a result that
\* holds no file under the missing root.
C23_MissingRootIsNoError ==
    \A d \in Roots \ dirs :
        /\ LET det == [inode_map |-> inode_map, file_cache |-> file_cache,
                       statLog |-> statLog, files |-> <<>>]
               out == scan_directory(fs, dirs, det, d, [denied |-> {}, abort |-> -1])
           IN out.files = <<>> /\ out.inode_map = inode_map
              /\ out.file_cache = file_cache
        /\ (ret.op = "scan_all" /\ ret.arg = "") => results # None
        /\ \A r \in results :
              \A p \in PathsOf(r.torrent_files) \cup PathsOf(r.library_files) :
                  ~IsUnder(p, d)
        /\ \A p \in FsPaths : IsUnder(p, d) => file_cache[p] = {}

\* a scan_all returned a result with files of other roots while the root
\* torrent_tv did not exist
C23_Witness ==
    /\ torrent_tv \notin dirs
    /\ \E r \in results : r.torrent_files # <<>> /\ r.library_files # <<>>
    /\ inode_map # <<>>

\* C24 as stated: within one ScanResults no path is both an orphan of
\* location "library" and the path of a relationship whose arr_services is
\* not empty, whatever the two get_episode_files calls met.
C24_OrphansAgreeWithRelationships ==
    \A r \in results :
        \A i \in 1..Len(r.file_relationships) :
            r.file_relationships[i].arr_services # <<>>
            => r.file_relationships[i].file_path \notin OrphanPaths(r, "library")

\* how often the lists of the index m hold the path p
Occurrences(m, p) == Sum([i \in 1..Len(m) |-> Count(m[i].val, p)])

\* C25 as stated: every path a scan_directory call added to inode_map or
\* file_cache is in the list that call returned, also when the call failed
\* part-way and returned the empty list.
C25_IndexHoldsOnlyReported ==
    [][(nCalls' = nCalls + 1 /\ ret'.op = "scan_directory")
       => \A p \in FsPaths :
             (Occurrences(inode_map', p) > Occurrences(inode_map, p)
                \/ file_cache'[p] # file_cache[p])
             => p \in PathsOf(ret'.result)]_vars

\* C26 as stated: the member paths of every reported hardlink group are
\* pairwise distinct, after any sequence of scan_directory calls.
C26_GroupMembersDistinct ==
    \A g \in ReportedGroups : NoRepeats(g.files)

\* a torrent that qBittorrent reports lists the file mf with its path and size
ListedAsOnDisk(mf) ==
    \E i \in 1..Len(qbit) : \E j \in 1..Len(qbit[i].files) :
        qbit[i].files[j] = TorrentFile(mf.path, mf.size)

\* C28: the torrent filter is never stricter than the classifier.  Every path
\* and size that classify puts in main_files passes should_skip_torrent_file,
\* and a main file of the torrent-root scan that qBittorrent lists with the
\* same path and size is kept in a torrent's file list and is not reported as
\* an orphan of location "torrent".
C28_FilterNotStricter ==
    /\ \A f \in ClassifyPool :
          classify(f) = "main_files" => ~should_skip_torrent_file(f.path, f.size)
    /\ \A r \in results : \A mf \in Range(r.torrent_files) :
          ListedAsOnDisk(mf)
          => /\ mf.path \in TorrentPaths(r)
             /\ mf.path \notin OrphanPaths(r, "torrent")

\* a scan found a main file of exactly 100 MiB that qBittorrent lists with
\* that path and size, next to a listed file that get_torrents filtered out
C28_Witness ==
    \E r \in results :
        /\ \E mf \in Range(r.torrent_files) :
              mf.size = MIN_MEDIA_SIZE /\ ListedAsOnDisk(mf)
        /\ \E i \in 1..Len(qbit) : Len(qbit[i].files) > Len(r.torrents[i].files)

(***************************************************************************)
(* web/app.py: api_delete_file.  A path is the tuple of its parts below    *)
(* "/", as pathlib keeps them: ".." parts are kept, not folded.            *)
(***************************************************************************)
\* the parts of the four configured roots
RootParts ==
    torrent_movies :> <<"tm">> @@ torrent_tv :> <<"tt">> @@
    library_movies :> <<"lm">> @@ library_tv :> <<"lt">>

\* the directories that exist: "/", /tm, /lm and /etc
DeleteDirs == {<<>>, <<"tm">>, <<"lm">>, <<"etc">>}

\* the files that may exist
DeleteFiles ==
    {<<"tm", "a.mkv">>, <<"tm", "b.mkv">>, <<"lm", "a.mkv">>, <<"etc", "passwd">>}

\* the file_path values requested
DeleteRequests ==
    {<<"tm", "a.mkv">>, <<"tm", "b.mkv">>, <<"lm", "a.mkv">>, <<"etc", "passwd">>,
     <<"tm">>, <<"tt">>, <<"tm", "c.mkv">>, <<"tt", "a.mkv">>, <<"etc">>,
     <<"tm", "..", "etc", "passwd">>, <<"lm", "..", "tm", "a.mkv">>,
     <<"tm", "..", "tm", "b.mkv">>, <<"tt", "..", "etc", "passwd">>,
     <<"etc", "..", "tm", "a.mkv">>, <<"tm", "a.mkv", "..", "b.mkv">>,
     <<"tm", "..", "..", "etc", "passwd">>, <<"lm", "..", "etc">>}

\* PurePath.is_relative_to(other): other's parts begin the path's parts
is_relative_to(path, other) ==
    Len(other) <= Len(path) /\ SubSeq(path, 1, Len(other)) = other

\* The location the operating system reaches for the parts from directory
\* at: ".." goes to the parent ("/" is its own parent), a name goes down, and
\* going on from something that is no directory fails.  None: no location.
RECURSIVE walk_parts(_, _)
walk_parts(parts, at) ==
    IF parts = <<>> THEN Some(at)
    ELSE IF at \notin DeleteDirs THEN None
    ELSE IF Head(parts) = ".."
         THEN walk_parts(Tail(parts), IF at = <<>> THEN <<>> ELSE SubSeq(at, 1, Len(at) - 1))
         ELSE walk_parts(Tail(parts), Append(at, Head(parts)))

\* the location a path denotes
denotes(path) == walk_parts(path, <<>>)

\* Path.exists() and Path.is_file()
path_exists(d, path) == \E loc \in denotes(path) : loc \in d \cup DeleteDirs
path_is_file(d, path) == \E loc \in denotes(path) : loc \in d

\* api_delete_file(file_path) on the files d.  remove_raises: os.remove
\* raises (the handler then answers 500).  The result is the status of the
\* response and the files left.
api_delete_file(d, path, remove_raises) ==
    IF ~\E root \in Roots : is_relative_to(path, RootParts[root])
    THEN [status |-> 403, disk |-> d]
    ELSE IF ~path_exists(d, path) THEN [status |-> 404, disk |-> d]
    ELSE IF ~path_is_file(d, path) THEN [status |-> 400, disk |-> d]
    ELSE IF remove_raises THEN [status |-> 500, disk |-> d]
    ELSE [status |-> 200, disk |-> d \ denotes(path)]

InitDelete ==
    /\ disk \in SUBSET DeleteFiles
    /\ resp = NoRequest
    /\ IdleBroadcast
    /\ IdleFs
    /\ IdleDetector
    /\ IdleClassify
    /\ IdleScan
    /\ IdleCrossSeed
    /\ IdleRelationships

\* DELETE /api/file?file_path=...
ApiDeleteFile(path, remove_raises) ==
    /\ \E out \in {api_delete_file(disk, path, remove_raises)} :
          /\ disk' = out.disk
          /\ resp' = [path |-> path, status |-> out.status]
    /\ UNCHANGED <<fsVars, detVars, clsVars, scanVars, xseedVars, relVars, wsVars>>

NextDelete == \E path \in DeleteRequests, remove_raises \in BOOLEAN :
                  ApiDeleteFile(path, remove_raises)

SpecDelete == InitDelete /\ [][NextDelete]_vars

\* the location lies inside one of the four configured roots
InsideRoot(loc) ==
    \E root \in Roots : is_relative_to(loc, RootParts[root]) /\ loc # RootParts[root]

\* C29 as stated: api_delete_file removes only files whose location lies
\* inside one of the four configured roots, and a request whose path denotes
\* an existing file outside all of them is answered with 403.
C29_DeletesOnlyInsideRoots ==
    [][/\ \A loc \in disk \ disk' : InsideRoot(loc)
       /\ \A loc \in denotes(resp'.path) :
             (loc \in disk /\ ~InsideRoot(loc)) => resp'.status = 403]_vars

(***************************************************************************)
(* web/app.py: ConnectionManager.  The coroutines run on one event loop,   *)
(* so connect and disconnect run between two steps of broadcast only while *)
(* broadcast awaits send_json.                                             *)
(***************************************************************************)
Sockets == {"w1", "w2", "w3"}

\* list.remove(x): the list without its first x
RECURSIVE list_remove(_, _)
list_remove(l, x) ==
    IF l = <<>> THEN <<>>
    ELSE IF Head(l) = x THEN Tail(l)
    ELSE <<Head(l)>> \o list_remove(Tail(l), x)

\* The for loop of broadcast asks its list iterator for the next entry: the
\* iterator holds an index into the list as it is now.  The result is the
\* coroutine awaiting send_json on that entry, or done when the index has
\* reached the end.
broadcast_next(connections, index, failed) ==
    IF index < Len(connections)
    THEN [pc |-> "await", index |-> index + 1,
          connection |-> Some(connections[index + 1]), failed |-> failed]
    ELSE [pc |-> "done", index |-> index, connection |-> None, failed |-> failed]

InitBroadcast ==
    /\ active_connections \in {l \in SeqsUpTo(Sockets, Cardinality(Sockets)) :
                                   Cardinality(Range(l)) = Len(l)}
    /\ bcast = NoBroadcast
    /\ delivered = [w \in Sockets |-> 0]
    /\ stayed = {}
    /\ IdleDelete
    /\ IdleFs
    /\ IdleDetector
    /\ IdleClassify
    /\ IdleScan
    /\ IdleCrossSeed
    /\ IdleRelationships

\* manager.broadcast(message) is called and runs up to its first await
Broadcast ==
    /\ bcast.pc \in {"idle", "done"}
    /\ bcast' = broadcast_next(active_connections, 0, {})
    /\ delivered' = [w \in Sockets |-> 0]
    /\ stayed' = Range(active_connections)
    /\ UNCHANGED <<active_connections, delVars, fsVars, detVars, clsVars, scanVars,
                   xseedVars, relVars>>

\* the awaited send_json returns or raises (the error is logged), and the
\* loop goes on to its next await or to its end
SendReturns(raises) ==
    /\ bcast.pc = "await"
    /\ \E w \in bcast.connection :
          /\ delivered' = IF raises THEN delivered
                           ELSE [delivered EXCEPT ![w] = delivered[w] + 1]
          /\ bcast' = broadcast_next(active_connections, bcast.index,
                           IF raises THEN bcast.failed \cup {w} ELSE bcast.failed)
    /\ UNCHANGED <<active_connections, stayed, delVars, fsVars, detVars, clsVars,
                   scanVars, xseedVars, relVars>>

\* manager.connect(websocket), from websocket_endpoint
Connect(w) ==
    /\ w \notin Range(active_connections)
    /\ active_connections' = Append(active_connections, w)
    /\ UNCHANGED <<bcast, delivered, stayed, delVars, fsVars, detVars, clsVars,
                   scanVars, xseedVars, relVars>>

\* manager.disconnect(websocket), from websocket_endpoint when the client
\* has gone
Disconnect(w) ==
    /\ w \in Range(active_connections)
    /\ active_connections' = list_remove(active_connections, w)
    /\ stayed' = stayed \ {w}
    /\ UNCHANGED <<bcast, delivered, delVars, fsVars, detVars, clsVars, scanVars,
                   xseedVars, relVars>>

NextBroadcast ==
    \/ Broadcast
    \/ \E raises \in BOOLEAN : SendReturns(raises)
    \/ \E w \in Sockets : Connect(w)
    \/ \E w \in Sockets : Disconnect(w)

SpecBroadcast == InitBroadcast /\ [][NextBroadcast]_vars

\* C30 as stated: when a broadcast has ended, every WebSocket that was in
\* active_connections from its beginning to its end has got the message
\* exactly once, unless the send to that WebSocket itself raised.
C30_BroadcastReachesAll ==
    bcast.pc = "done" =>
        \A w \in stayed :
            /\ delivered[w] <= 1
            /\ w \notin bcast.failed => delivered[w] = 1

====
